---- MODULE Spec2Model ----
(***************************************************************************)
(* wurstmapberg-cli: top-down map renderer for Minecraft region files.     *)
(* Model of src/crate/wurstmapberg-cli/src/main.rs.                        *)
(*                                                                         *)
(*  SpecScan   one block column of a chunk column: the downward color scan *)
(*             (one action per way an iteration of the while loop ends),   *)
(*             then the tint selection and the pixel write.                *)
(*  SpecWater  the water_depth -> Tint match as a pure function.           *)
(*  SpecReduce the Color Table lookup and rule reduction of one block.     *)
(*  SpecTint   MapColor::tint of one color with one tint.                   *)
(*  Spec       main: one future per x group, Region::find, the blocking    *)
(*             render task, the two error maps and the final result.       *)
(***************************************************************************)
EXTENDS Integers, Sequences, FiniteSets, TLC

VARIABLES
    \* ---- one block column (SpecScan, SpecWater) ----
    col,            \* the chunk column being drawn: x_pos, z_pos, y_pos, sections
    max_y,          \* heightmap[block_z][block_x] of col
    stack,          \* blocks of col at (block_x, block_z), by y
    north,          \* what the north-neighbor lookup has to work with
    has_prev,       \* prev.is_some()
    block_x,
    block_z,
    y,
    col_color,
    iters,          \* iterations of the while loop started so far (saturating)
    water_depth,
    tint,
    pixel,
    pc,
    \* ---- the run (Spec) ----
    coords,         \* the region coordinates Region::all_coords listed
    fault,          \* what is wrong with each listed region on disk, if anything
    gpc,            \* where each group future (one per x) stands
    zs,             \* the z values the group's for loop has not finished, ascending
    prev,           \* the group's prev: None or Some(region)
    task,           \* the group's spawn_blocking task
    region_errors,
    col_errors,
    pngs,           \* the tiles saved under out/, by region
    consulted,      \* per rendered region, the regions its cross-region lookups went to
    started,        \* per group, the z of every render that has started, in order
    finished,       \* per group, the z of every render that has returned, in order
    result          \* what main returned, "running" until then

scanVars == <<col, max_y, stack, north, has_prev, block_x, block_z, y, col_color,
              iters, water_depth, tint, pixel, pc>>
otherRunVars == <<coords, fault, gpc, zs, prev, task, region_errors, pngs, consulted,
                  started, finished, result>>
runVars == <<otherRunVars, col_errors>>
vars == <<scanVars, runVars>>

(***************************************************************************)
(* Bounds of the model.                                                    *)
(***************************************************************************)
MaxY == 0           \* highest heightmap value / stored block y of a modelled column
MaxIters == 4       \* the iteration counter saturates here
MaxDepth == 12      \* largest water depth fed to the depth -> tint match
MaxZ == 2           \* listed regions have z in -1..MaxZ - 1
MaxRegions == 3     \* at most this many regions are listed
MaxFaults == 2      \* at most this many listed regions have something wrong
MaxBlockX == 1      \* the block columns 0..MaxBlockX of each row are drawn

Min(a, b) == IF a < b THEN a ELSE b
Max(a, b) == IF a > b THEN a ELSE b

(***************************************************************************)
(* Program constants.                                                      *)
(***************************************************************************)
SectionHeight == 16     \* y.div_euclid(16), y.rem_euclid(16)
RegionChunks == 32      \* col.z_pos.rem_euclid(32)
TileSize == 512         \* 16 * 32
ChunkBlocks == 16       \* rows and columns of a heightmap
U16 == 65536
U8 == 256

(***************************************************************************)
(* MapColor, Tint, MapColor::tint                                          *)
(***************************************************************************)
Tints == {"Dark", "Normal", "Light"}

multiplier(t) ==
    CASE t = "Dark" -> 180
      [] t = "Normal" -> 220
      [] t = "Light" -> 255

\* enum MapColor
MapColors ==
    {"Clear", "PaleGreen", "PaleYellow", "WhiteGray", "BrightRed", "PalePurple",
     "IronGray", "DarkGreen", "White", "LightBlueGray", "DirtBrown", "StoneGray",
     "WaterBlue", "OakTan", "OffWhite", "Orange", "Magenta", "LightBlue", "Yellow",
     "Lime", "Pink", "Gray", "LightGray", "Cyan", "Purple", "Blue", "Brown", "Green",
     "Red", "Black", "Gold", "DiamondBlue", "LapisBlue", "EmeraldGreen",
     "SpruceBrown", "DarkRed", "TerracottaWhite", "TerracottaOrange",
     "TerracottaMagenta", "TerracottaLightBlue", "TerracottaYellow",
     "TerracottaLime", "TerracottaPink", "TerracottaGray", "TerracottaLightGray",
     "TerracottaCyan", "TerracottaPurple", "TerracottaBlue", "TerracottaBrown",
     "TerracottaGreen", "TerracottaRed", "TerracottaBlack", "DullRed", "DullPink",
     "DarkCrimson", "Teal", "DarkAqua", "DarkDullPink", "BrightTeal",
     "DeepslateGray", "RawIronPink", "LichenGreen"}

\* let base_rgb = match self { .. }
base_rgb(c) ==
    CASE c = "PaleGreen" -> 8368696
      [] c = "PaleYellow" -> 16247203
      [] c = "WhiteGray" -> 13092807
      [] c = "BrightRed" -> 16711680
      [] c = "PalePurple" -> 10526975
      [] c = "IronGray" -> 10987431
      [] c = "DarkGreen" -> 31744
      [] c = "White" -> 16777215
      [] c = "LightBlueGray" -> 10791096
      [] c = "DirtBrown" -> 9923917
      [] c = "StoneGray" -> 7368816
      [] c = "WaterBlue" -> 4210943
      [] c = "OakTan" -> 9402184
      [] c = "OffWhite" -> 16776437
      [] c = "Orange" -> 14188339
      [] c = "Magenta" -> 11685080
      [] c = "LightBlue" -> 6724056
      [] c = "Yellow" -> 15066419
      [] c = "Lime" -> 8375321
      [] c = "Pink" -> 15892389
      [] c = "Gray" -> 5000268
      [] c = "LightGray" -> 10066329
      [] c = "Cyan" -> 5013401
      [] c = "Purple" -> 8339378
      [] c = "Blue" -> 3361970
      [] c = "Brown" -> 6704179
      [] c = "Green" -> 6717235
      [] c = "Red" -> 10040115
      [] c = "Black" -> 1644825
      [] c = "Gold" -> 16445005
      [] c = "DiamondBlue" -> 6085589
      [] c = "LapisBlue" -> 4882687
      [] c = "EmeraldGreen" -> 55610
      [] c = "SpruceBrown" -> 8476209
      [] c = "DarkRed" -> 7340544
      [] c = "TerracottaWhite" -> 13742497
      [] c = "TerracottaOrange" -> 10441252
      [] c = "TerracottaMagenta" -> 9787244
      [] c = "TerracottaLightBlue" -> 7367818
      [] c = "TerracottaYellow" -> 12223780
      [] c = "TerracottaLime" -> 6780213
      [] c = "TerracottaPink" -> 10505550
      [] c = "TerracottaGray" -> 3746083
      [] c = "TerracottaLightGray" -> 8874850
      [] c = "TerracottaCyan" -> 5725276
      [] c = "TerracottaPurple" -> 8014168
      [] c = "TerracottaBlue" -> 4996700
      [] c = "TerracottaBrown" -> 4993571
      [] c = "TerracottaGreen" -> 5001770
      [] c = "TerracottaRed" -> 9321518
      [] c = "TerracottaBlack" -> 2430480
      [] c = "DullRed" -> 12398641
      [] c = "DullPink" -> 9715553
      [] c = "DarkCrimson" -> 6035741
      [] c = "Teal" -> 1474182
      [] c = "DarkAqua" -> 3837580
      [] c = "DarkDullPink" -> 5647422
      [] c = "BrightTeal" -> 1356933
      [] c = "DeepslateGray" -> 6579300
      [] c = "RawIronPink" -> 14200723
      [] c = "LichenGreen" -> 8365974

\* to_be_bytes of a u32: [_, r, g, b]
to_be_bytes(n) == <<(n \div 16777216) % U8, (n \div 65536) % U8, (n \div 256) % U8, n % U8>>

\* the product taken in u8 instead of u16
TintChannelNarrow(channel, t) == (((channel * multiplier(t)) % U8) \div 255) % U8

\* (u16::from(channel) * tint.multiplier() / 255) as u8
TintChannel(channel, t) == (((channel * multiplier(t)) % U16) \div 255) % U8

MapColorTint(c, t) ==
    IF c = "Clear" THEN <<0, 0, 0, 0>>
    ELSE LET bytes == to_be_bytes(base_rgb(c))
         IN  <<TintChannel(bytes[2], t), TintChannel(bytes[3], t), TintChannel(bytes[4], t), 255>>

(***************************************************************************)
(* Blocks, BlockMapColor and the Color Table                               *)
(***************************************************************************)
NoValue == ""   \* a property the block does not have
NoProps == [part |-> NoValue, age |-> NoValue, axis |-> NoValue, waterlogged |-> NoValue]

Block(n, p) == [name |-> n, props |-> p]
Air == Block("air", NoProps)
Stone == Block("stone", NoProps)
Dirt == Block("dirt", NoProps)
Water == Block("water", NoProps)
Unlisted == Block("unlisted", NoProps)      \* an identifier the Color Table lacks
Wet == [NoProps EXCEPT !.waterlogged = "true"]
WetUnlisted == Block("unlisted", Wet)
WetStairs == Block("oak_stairs", Wet)

Single(c) == [tag |-> "Single", a |-> c, b |-> c]
Bed(head, foot) == [tag |-> "Bed", a |-> head, b |-> foot]
Crops(growing, grown) == [tag |-> "Crops", a |-> growing, b |-> grown]
Pillar(top, side) == [tag |-> "Pillar", a |-> top, b |-> side]
Waterloggable(dry, wet) == [tag |-> "Waterloggable", a |-> dry, b |-> wet]

\* colors::get_block_colors(): the table itself is not part of the sources.
block_colors ==
    [n \in {"air", "stone", "dirt", "water", "red_bed", "wheat", "oak_log", "oak_slab",
            "oak_stairs"} |->
        CASE n = "air" -> Single("Clear")
          [] n = "stone" -> Single("StoneGray")
          [] n = "dirt" -> Single("DirtBrown")
          [] n = "water" -> Single("WaterBlue")
          [] n = "red_bed" -> Bed("WhiteGray", "Red")
          [] n = "wheat" -> Crops("DarkGreen", "PaleYellow")
          [] n = "oak_log" -> Pillar("OakTan", "DirtBrown")
          [] n = "oak_slab" -> Waterloggable("OakTan", "WaterBlue")
          [] n = "oak_stairs" -> Single("OakTan")]

\* the Pillar arm without is_some_and: a missing axis taken as "not y"
ReduceColorAxisAny(color, block) ==
    CASE color.tag = "Single" -> color.a
      [] color.tag = "Bed" -> IF block.props.part = "head" THEN color.a ELSE color.b
      [] color.tag = "Crops" -> IF block.props.age = "7" THEN color.b ELSE color.a
      [] color.tag = "Pillar" -> IF block.props.axis # "y" THEN color.b ELSE color.a
      [] color.tag = "Waterloggable" ->
            IF block.props.waterlogged = "true" THEN color.b ELSE color.a

\* match color { BlockMapColor::Single(color) => color, ... }
ReduceColor(color, block) ==
    CASE color.tag = "Single" -> color.a
      [] color.tag = "Bed" -> IF block.props.part = "head" THEN color.a ELSE color.b
      [] color.tag = "Crops" -> IF block.props.age = "7" THEN color.b ELSE color.a
      [] color.tag = "Pillar" ->
            IF block.props.axis # NoValue /\ block.props.axis # "y" THEN color.b ELSE color.a
      [] color.tag = "Waterloggable" ->
            IF block.props.waterlogged = "true" THEN color.b ELSE color.a

(***************************************************************************)
(* Access to a chunk column                                                *)
(***************************************************************************)
\* col.section_at(chunk_y).is_some()
section_at(c, chunk_y) == chunk_y \in c.sections

\* chunk.block_relative([block_x, block_y, block_z]) of the section holding yy;
\* a loaded section holds a block at each of its 16 levels
block_relative(st, yy) == IF yy \in DOMAIN st THEN st[yy] ELSE Air

\* What one look at level yy yields: "unloaded" (no section), "absent" (the
\* name is not in the Color Table) or the reduced MapColor.
Lookup(c, st, yy) ==
    IF ~section_at(c, yy \div SectionHeight) THEN "unloaded"
    ELSE LET block == block_relative(st, yy)
         IN  IF block.name \notin DOMAIN block_colors THEN "absent"
             ELSE ReduceColor(block_colors[block.name], block)

IsWaterlogged(st, yy) == block_relative(st, yy).props.waterlogged = "true"

(***************************************************************************)
(* The tint selection (match col_color)                                    *)
(***************************************************************************)
\* the 3..=4 arm taken as 3..=5
WaterTintWideBand(depth, bx, bz) ==
    IF depth <= 2 THEN "Light"
    ELSE IF depth <= 5 THEN (IF (bx + bz) % 2 = 0 THEN "Light" ELSE "Normal")
    ELSE IF depth <= 6 THEN "Normal"
    ELSE IF depth <= 9 THEN (IF (bx + bz) % 2 = 0 THEN "Normal" ELSE "Dark")
    ELSE "Dark"

\* match water_depth { ..=2 => .., 3..=4 => .., 5..=6 => .., 7..=9 => .., _ => .. }
WaterTint(depth, bx, bz) ==
    IF depth <= 2 THEN "Light"
    ELSE IF depth <= 4 THEN (IF (bx + bz) % 2 = 0 THEN "Light" ELSE "Normal")
    ELSE IF depth <= 6 THEN "Normal"
    ELSE IF depth <= 9 THEN (IF (bx + bz) % 2 = 0 THEN "Normal" ELSE "Dark")
    ELSE "Dark"

\* match y.cmp(&north_neighbor) { Less => Dark, Equal => Normal, Greater => Light }
ReliefTint(yy, nn) ==
    IF yy < nn THEN "Dark" ELSE IF yy = nn THEN "Normal" ELSE "Light"

\* (col.y_pos..=y).rev().take_while(|y| ..).count(): the closure assigns
\* col_color at every level whose block is in the Color Table.
RECURSIVE WaterScan(_, _, _, _)
WaterScan(c, st, yy, cc) ==
    IF yy < c.y_pos THEN [n |-> 0, col_color |-> cc]
    ELSE LET r == Lookup(c, st, yy)
         IN  IF r = "unloaded" \/ r = "absent" THEN [n |-> 0, col_color |-> cc]
             ELSE IF r = "WaterBlue" \/ IsWaterlogged(st, yy)
                  THEN LET rest == WaterScan(c, st, yy - 1, r)
                       IN  [n |-> rest.n + 1, col_color |-> rest.col_color]
                  ELSE [n |-> 0, col_color |-> r]

\* (col.y_pos..=top).rev().find(|y| ..): the closure assigns col_color at
\* every level whose block is in the Color Table.
RECURSIVE FindTop(_, _, _, _)
FindTop(c, st, yy, cc) ==
    IF yy < c.y_pos THEN [found |-> FALSE, y |-> 0, col_color |-> cc]
    ELSE LET r == Lookup(c, st, yy)
         IN  IF r = "unloaded" \/ r = "absent" THEN FindTop(c, st, yy - 1, cc)
             ELSE IF r # "Clear" THEN [found |-> TRUE, y |-> yy, col_color |-> r]
             ELSE FindTop(c, st, yy - 1, r)

\* Which region the lookup across a chunk border goes to.
NorthSource(c, hp, bz) ==
    IF bz > 0 THEN "same_chunk"
    ELSE IF c.z_pos % RegionChunks > 0 THEN "same_region"
    ELSE IF hp THEN "prev_region"
    ELSE "not_on_map"

\* The 'north_neighbor block. nb.res is what north_region.chunk_column(..)
\* returned ("some", "none", "err"); for block_z > 0 nb holds the row
\* block_z - 1 of the same chunk column.
NorthNeighbor(c, nb, hp, bz, cc) ==
    LET src == NorthSource(c, hp, bz)
        none == [err |-> FALSE, found |-> FALSE, y |-> 0, col_color |-> cc]
    IN  IF src = "same_chunk"
        THEN LET f == FindTop(c, nb.stack, nb.max_y, cc)
             IN  [err |-> FALSE, found |-> f.found, y |-> f.y, col_color |-> f.col_color]
        ELSE IF src = "not_on_map" THEN none
        ELSE IF nb.res = "err" THEN [err |-> TRUE, found |-> FALSE, y |-> 0, col_color |-> cc]
        ELSE IF nb.res = "none" THEN none
        ELSE LET f == FindTop(nb.col, nb.stack, nb.max_y, cc)
             IN  [err |-> FALSE, found |-> f.found, y |-> f.y, col_color |-> f.col_color]

\* let tint = match col_color { .. }: the tint, the col_color left behind and
\* whether the closure returned early with a column error.
Shade(c, st, nb, hp, bx, bz, yy, cc) ==
    IF cc = "Clear"
    THEN [err |-> FALSE, tint |-> "Normal", col_color |-> cc, water_depth |-> 0]
    ELSE IF cc = "WaterBlue"
    THEN LET w == WaterScan(c, st, yy, cc)
         IN  [err |-> FALSE, tint |-> WaterTint(w.n, bx, bz), col_color |-> w.col_color,
              water_depth |-> w.n]
    ELSE LET nn == NorthNeighbor(c, nb, hp, bz, cc)
         IN  [err |-> nn.err,
              tint |-> ReliefTint(yy, IF nn.found THEN nn.y ELSE yy),
              col_color |-> nn.col_color, water_depth |-> 0]

\* region_img[(x.rem_euclid(16 * 32), z.rem_euclid(16 * 32))]
PixelAt(c, bx, bz) ==
    <<(c.x_pos * ChunkBlocks + bx) % TileSize, (c.z_pos * ChunkBlocks + bz) % TileSize>>

(***************************************************************************)
(* SpecScan: one block column, the while loop one iteration at a time      *)
(***************************************************************************)
YPosValues == {-1}
OwnKinds == {Air, Stone, Water, Unlisted, WetUnlisted, WetStairs}
NorthKinds == {Air, Dirt, Unlisted}

SectionsOver(lo, hi) == {yy \div SectionHeight : yy \in lo..hi}

\* (block_z, z_pos, prev) for each way the north neighbor is looked up
Positions ==
    { [block_z |-> 1, z_pos |-> -1, has_prev |-> FALSE],
      [block_z |-> 0, z_pos |-> -1, has_prev |-> FALSE],
      [block_z |-> 0, z_pos |-> -32, has_prev |-> TRUE],
      [block_z |-> 0, z_pos |-> -32, has_prev |-> FALSE] }

NoNorth(c) == [res |-> "none", col |-> [y_pos |-> c.y_pos, sections |-> {}],
               max_y |-> c.y_pos - 1, stack |-> << >>]

NorthColumns(c, secsets) ==
    UNION { UNION { { [res |-> "some", col |-> [y_pos |-> c.y_pos, sections |-> secs],
                       max_y |-> m, stack |-> s] :
                      s \in [c.y_pos..m -> NorthKinds] } :
                    m \in (c.y_pos - 1)..MaxY } :
            secs \in secsets }

NorthContexts(c, hp, bz) ==
    LET src == NorthSource(c, hp, bz)
    IN  IF src = "same_chunk" THEN NorthColumns(c, {c.sections})
        ELSE IF src = "not_on_map" THEN {NoNorth(c)}
        ELSE NorthColumns(c, SUBSET SectionsOver(c.y_pos, MaxY))
             \cup {NoNorth(c), [NoNorth(c) EXCEPT !.res = "err"]}

NoPixel == << >>

RunIdle ==
    /\ coords = {}
    /\ fault = << >>
    /\ gpc = << >>
    /\ zs = << >>
    /\ prev = << >>
    /\ task = << >>
    /\ region_errors = << >>
    /\ col_errors = << >>
    /\ pngs = << >>
    /\ consulted = << >>
    /\ started = << >>
    /\ finished = << >>
    /\ result = "idle"

InitScan ==
    /\ \E yp \in YPosValues, pos \in Positions, secs \in SUBSET SectionsOver(-1, MaxY) :
          /\ col = [x_pos |-> 0, z_pos |-> pos.z_pos, y_pos |-> yp, sections |-> secs]
          /\ block_z = pos.block_z
          /\ has_prev = pos.has_prev
    /\ max_y \in (col.y_pos - 1)..MaxY
    /\ stack \in [col.y_pos..max_y -> OwnKinds]
    /\ north \in NorthContexts(col, has_prev, block_z)
    /\ block_x \in {0, 1}
    /\ y = max_y
    /\ col_color = "Clear"
    /\ iters = 0
    /\ water_depth = 0
    /\ tint = "unset"
    /\ pixel = NoPixel
    /\ pc = "scan"
    /\ RunIdle

inputVars == <<col, max_y, stack, north, has_prev, block_x, block_z>>

Iterate == iters' = Min(iters + 1, MaxIters)

\* while y >= col.y_pos is false on entry
ScanExit ==
    /\ pc = "scan" /\ y < col.y_pos
    /\ pc' = "shade"
    /\ UNCHANGED <<inputVars, y, col_color, iters, water_depth, tint, pixel, runVars>>

\* let Some(&color) = block_colors.get(&block.name) else { continue };
ScanContinue ==
    /\ pc = "scan" /\ y >= col.y_pos
    /\ Lookup(col, stack, y) = "absent"
    /\ Iterate
    /\ UNCHANGED <<inputVars, y, col_color, water_depth, tint, pixel, pc, runVars>>

\* if col_color != MapColor::Clear { break }
ScanBreak ==
    /\ pc = "scan" /\ y >= col.y_pos
    /\ Lookup(col, stack, y) \notin {"unloaded", "absent", "Clear"}
    /\ col_color' = Lookup(col, stack, y)
    /\ Iterate
    /\ pc' = "shade"
    /\ UNCHANGED <<inputVars, y, water_depth, tint, pixel, runVars>>

\* if y == col.y_pos { break }
ScanFloor ==
    /\ pc = "scan" /\ y = col.y_pos
    /\ Lookup(col, stack, y) \in {"unloaded", "Clear"}
    /\ col_color' = IF Lookup(col, stack, y) = "Clear" THEN "Clear" ELSE col_color
    /\ Iterate
    /\ pc' = "shade"
    /\ UNCHANGED <<inputVars, y, water_depth, tint, pixel, runVars>>

\* y -= 1
ScanDescend ==
    /\ pc = "scan" /\ y > col.y_pos
    /\ Lookup(col, stack, y) \in {"unloaded", "Clear"}
    /\ col_color' = IF Lookup(col, stack, y) = "Clear" THEN "Clear" ELSE col_color
    /\ y' = y - 1
    /\ Iterate
    /\ UNCHANGED <<inputVars, water_depth, tint, pixel, pc, runVars>>

\* HashMap::insert
Insert(m, k, v) == [q \in DOMAIN m \cup {k} |-> IF q = k THEN v ELSE m[q]]

\* the tint is chosen and region_img[..] = col_color.tint(tint) is written
ShadeAndDraw ==
    /\ pc = "shade"
    /\ LET s == Shade(col, stack, north, has_prev, block_x, block_z, y, col_color)
       IN  /\ ~s.err
           /\ tint' = s.tint
           /\ col_color' = s.col_color
           /\ water_depth' = s.water_depth
           /\ pixel' = <<PixelAt(col, block_x, block_z), MapColorTint(s.col_color, s.tint)>>
    /\ pc' = "done"
    /\ UNCHANGED <<inputVars, y, iters, runVars>>

\* Err(e) => { col_errors.lock().insert([x, z], e); return Ok(region) } in the
\* north-neighbor lookup: x and z are by then the block coordinates
\* (let x = col.x_pos * 16 + block_x, let z = col.z_pos * 16 + block_z)
ShadeError ==
    /\ pc = "shade"
    /\ Shade(col, stack, north, has_prev, block_x, block_z, y, col_color).err
    /\ col_errors' = Insert(col_errors, <<col.x_pos * ChunkBlocks + block_x,
                                          col.z_pos * ChunkBlocks + block_z>>,
                             <<col.x_pos, col.z_pos - 1>>)
    /\ pc' = "returned"
    /\ UNCHANGED <<inputVars, y, col_color, iters, water_depth, tint, pixel, otherRunVars>>

NextScan ==
    \/ ScanExit
    \/ ScanContinue
    \/ ScanBreak
    \/ ScanFloor
    \/ ScanDescend
    \/ ShadeAndDraw
    \/ ShadeError

SpecScan == InitScan /\ [][NextScan]_vars

(***************************************************************************)
(* SpecWater: the depth -> tint match on its own                           *)
(***************************************************************************)
InitWater ==
    /\ water_depth \in 0..MaxDepth
    /\ block_x \in 0..(ChunkBlocks - 1)
    /\ block_z \in 0..(ChunkBlocks - 1)
    /\ col = [x_pos |-> 0, z_pos |-> 0, y_pos |-> 0, sections |-> {}]
    /\ max_y = 0
    /\ stack = << >>
    /\ north = NoNorth(col)
    /\ has_prev = FALSE
    /\ y = 0
    /\ col_color = "WaterBlue"
    /\ iters = 0
    /\ tint = "unset"
    /\ pixel = NoPixel
    /\ pc = "depth"
    /\ RunIdle

\* match water_depth { .. } followed by the pixel write
TintWater ==
    /\ pc = "depth"
    /\ tint' = WaterTint(water_depth, block_x, block_z)
    /\ pixel' = <<PixelAt(col, block_x, block_z), MapColorTint(col_color, tint')>>
    /\ pc' = "tinted"
    /\ UNCHANGED <<inputVars, y, col_color, iters, water_depth, runVars>>

NextWater == TintWater

SpecWater == InitWater /\ [][NextWater]_vars

(***************************************************************************)
(* SpecReduce: one look at one block, the Color Table lookup and the        *)
(* reduction of the rule found                                             *)
(***************************************************************************)
PartValues == {NoValue, "head", "foot"}
AgeValues == {NoValue, "7", "3"}
AxisValues == {NoValue, "x", "y"}
WaterloggedValues == {NoValue, "true", "false"}
BlockNames == DOMAIN block_colors \cup {"unlisted"}

InitReduce ==
    /\ col = [x_pos |-> 0, z_pos |-> 0, y_pos |-> 0, sections |-> {0}]
    /\ max_y = 0
    /\ \E n \in BlockNames, pa \in PartValues, ag \in AgeValues, ax \in AxisValues,
          wl \in WaterloggedValues :
          stack = (0 :> Block(n, [part |-> pa, age |-> ag, axis |-> ax, waterlogged |-> wl]))
    /\ north = NoNorth(col)
    /\ has_prev = FALSE
    /\ block_x = 0
    /\ block_z = 0
    /\ y = 0
    /\ col_color \in {"Clear", "WaterBlue"}
    /\ iters = 0
    /\ water_depth = 0
    /\ tint = "unset"
    /\ pixel = NoPixel
    /\ pc = "look"
    /\ RunIdle

\* col_color = match color { .. }
ReduceBlock ==
    /\ pc = "look"
    /\ Lookup(col, stack, y) \notin {"unloaded", "absent"}
    /\ col_color' = Lookup(col, stack, y)
    /\ pc' = "reduced"
    /\ UNCHANGED <<inputVars, y, iters, water_depth, tint, pixel, runVars>>

\* let Some(&color) = block_colors.get(&block.name) else { .. }: no rule, col_color
\* stays as it is
ReduceNothing ==
    /\ pc = "look"
    /\ Lookup(col, stack, y) = "absent"
    /\ pc' = "unmatched"
    /\ UNCHANGED <<inputVars, y, col_color, iters, water_depth, tint, pixel, runVars>>

NextReduce ==
    \/ ReduceBlock
    \/ ReduceNothing

SpecReduce == InitReduce /\ [][NextReduce]_vars

(***************************************************************************)
(* SpecTint: col_color.tint(tint) for every color and tint                 *)
(***************************************************************************)
InitTint ==
    /\ col_color \in MapColors
    /\ tint \in Tints
    /\ col = [x_pos |-> 0, z_pos |-> 0, y_pos |-> 0, sections |-> {}]
    /\ max_y = 0
    /\ stack = << >>
    /\ north = NoNorth(col)
    /\ has_prev = FALSE
    /\ block_x = 0
    /\ block_z = 0
    /\ y = 0
    /\ iters = 0
    /\ water_depth = 0
    /\ pixel = NoPixel
    /\ pc = "tint"
    /\ RunIdle

\* region_img[..] = col_color.tint(tint)
TintPixel ==
    /\ pc = "tint"
    /\ pixel' = <<PixelAt(col, block_x, block_z), MapColorTint(col_color, tint)>>
    /\ pc' = "drawn"
    /\ UNCHANGED <<inputVars, y, col_color, iters, water_depth, tint, runVars>>

NextTint == TintPixel

SpecTint == InitTint /\ [][NextTint]_vars

(***************************************************************************)
(* The world on disk                                                       *)
(*                                                                         *)
(* A region holds chunk columns in the rows ChunkRows of its chunk column  *)
(* x = 0 and nowhere else; every chunk column has the block columns        *)
(* 0..MaxBlockX of each of its 16 rows. The terrain is a fixed function of *)
(* the position.                                                           *)
(***************************************************************************)
GroupXs == {0, 1}
ChunkRows == {0, 30, 31}
WorldYPos == {-1}
Faults == {"corrupt", "gone", "bad_north", "bad_south", "png_fails"}

None == << >>
Some(v) == <<v>>

Cells == GroupXs \X {z - 1 : z \in 0..MaxZ}

\* the chunk column of region r in chunk row cz
ColumnAt(r, cz) ==
    [x_pos |-> r[1] * RegionChunks, z_pos |-> r[2] * RegionChunks + cz,
     y_pos |-> CHOOSE yp \in WorldYPos : TRUE,
     sections |-> IF cz = 30 /\ r[2] % 2 = 1 THEN {-1} ELSE {-1, 0}]

\* the kind of block column at each position; on a region's north border
\* the first block column has a stone or dirt surface, or is water with
\* stone next to it
Profile(r, cz, bx, bz) ==
    IF cz = 0 /\ bz = 0 /\ (bx = 0 \/ (r[1] + r[2]) % 3 = 0)
    THEN CASE (r[1] + r[2]) % 3 = 0 -> IF bx = 0 THEN 2 ELSE 0
           [] (r[1] + r[2]) % 3 = 1 -> 1
           [] (r[1] + r[2]) % 3 = 2 -> 3
    ELSE (3 * r[1] + 2 * r[2] + (cz % 3) + bx + bz + (bz \div 7)) % 6

\* the blocks of one block column, by y
StackAt(r, cz, bx, bz) ==
    LET k == Profile(r, cz, bx, bz)
    IN  [yy \in -1..1 |->
            CASE k = 0 -> Stone
              [] k = 1 -> IF yy = -1 THEN Stone ELSE Air
              [] k = 2 -> IF yy = -1 THEN Stone ELSE Water
              [] k = 3 -> IF yy = 1 THEN Air ELSE Dirt
              [] k = 4 -> Air
              [] k = 5 -> IF yy = 1 THEN Water ELSE IF yy = 0 THEN Unlisted ELSE Stone]

\* col.heightmaps.get("WORLD_SURFACE")[bz][bx]: every modelled chunk column has
\* the heightmap
HeightAt(r, cz, bx, bz) ==
    LET k == Profile(r, cz, bx, bz)
    IN  CASE k = 0 -> 1
          [] k = 1 -> 0
          [] k = 2 -> 1
          [] k = 3 -> 0
          [] k = 4 -> -1
          [] k = 5 -> 1

\* whether decoding the chunk column of r in row cz fails
BadColumn(f, r, cz) ==
    \/ f[r] = "bad_north" /\ cz = 0
    \/ f[r] = "bad_south" /\ cz = 31

\* region.chunk_column([x, z]): "err", "none" or "some"; the coordinates are
\* reduced to the region's own 32 x 32 grid
chunk_column(f, r, x, z) ==
    IF x % RegionChunks # 0 \/ (z % RegionChunks) \notin ChunkRows THEN "none"
    ELSE IF BadColumn(f, r, z % RegionChunks) THEN "err"
    ELSE "some"

(***************************************************************************)
(* The body of the spawn_blocking closure                                  *)
(***************************************************************************)
\* the whole while loop of one block column
RECURSIVE Scan(_, _, _, _)
Scan(c, st, yy, cc) ==
    IF yy < c.y_pos THEN [hang |-> FALSE, y |-> yy, col_color |-> cc]
    ELSE LET r == Lookup(c, st, yy)
         IN  IF r = "absent" THEN [hang |-> TRUE, y |-> yy, col_color |-> cc]
             ELSE IF r \notin {"unloaded", "Clear"}
                  THEN [hang |-> FALSE, y |-> yy, col_color |-> r]
             ELSE IF yy = c.y_pos
                  THEN [hang |-> FALSE, y |-> yy, col_color |-> IF r = "Clear" THEN r ELSE cc]
             ELSE Scan(c, st, yy - 1, IF r = "Clear" THEN r ELSE cc)

\* prev never taken
NorthRegionNotOnMap(r, p, c) ==
    IF c.z_pos % RegionChunks > 0 THEN Some(r) ELSE None

\* the region the lookup across the region's north border goes to
\* (if let Some(prev) = &prev)
NorthRegion(r, p, c) ==
    IF c.z_pos % RegionChunks > 0 THEN Some(r) ELSE p

\* what the 'north_neighbor block of block column (bx, bz) of column c works with
NorthOf(f, r, p, c, cz, bx, bz) ==
    IF bz > 0
    THEN [res |-> "some", col |-> [y_pos |-> c.y_pos, sections |-> c.sections],
          max_y |-> HeightAt(r, cz, bx, bz - 1), stack |-> StackAt(r, cz, bx, bz - 1)]
    ELSE LET nr == NorthRegion(r, p, c)
         IN  IF nr = None THEN NoNorth(c)
             ELSE LET got == chunk_column(f, nr[1], c.x_pos, c.z_pos - 1)
                      ncz == (c.z_pos - 1) % RegionChunks
                      nc == ColumnAt(nr[1], ncz)
                  IN  IF got # "some" THEN [NoNorth(c) EXCEPT !.res = got]
                      ELSE [res |-> "some",
                            col |-> [y_pos |-> nc.y_pos, sections |-> nc.sections],
                            max_y |-> HeightAt(nr[1], ncz, bx, ChunkBlocks - 1),
                            stack |-> StackAt(nr[1], ncz, bx, ChunkBlocks - 1)]

\* one block column once its scan has ended: the tint, the pixel; key is the
\* [x, z] a failed north-neighbor lookup inserts its error under, the block
\* coordinates that shadow the region's x and z
ShadeColumn(p, c, st, nb, bx, bz, sc) ==
    LET crossing == /\ sc.col_color \notin {"Clear", "WaterBlue"}
                    /\ NorthSource(c, p # None, bz) = "prev_region"
    IN  { [out |-> IF sc.hang THEN "hang" ELSE IF sh.err THEN "err" ELSE "drawn",
           at |-> PixelAt(c, bx, bz),
           rgba |-> MapColorTint(sh.col_color, sh.tint),
           own |-> sc.col_color, tint |-> sh.tint,
           err |-> <<c.x_pos, c.z_pos - 1>>,
           key |-> <<c.x_pos * ChunkBlocks + bx, c.z_pos * ChunkBlocks + bz>>,
           consulted |-> IF ~sc.hang /\ crossing THEN {p[1]} ELSE {}] :
          sh \in {Shade(c, st, nb, p # None, bx, bz, sc.y, sc.col_color)} }

\* one block column: the scan, the tint, the pixel (each intermediate
\* result is bound once, as the let bindings of the closure are)
DrawColumn(f, r, p, cz, bx, bz) ==
    CHOOSE d \in UNION { UNION { ShadeColumn(p, c, st, nb, bx, bz, sc) :
                                   nb \in {NorthOf(f, r, p, c, cz, bx, bz)},
                                   sc \in {Scan(c, st, HeightAt(r, cz, bx, bz), "Clear")} } :
                         c \in {ColumnAt(r, cz)}, st \in {StackAt(r, cz, bx, bz)} } : TRUE

\* the block columns in the order the loops visit them:
\* for col in &region, for block_z, for block_x
BlockColumns == 0..(3 * ChunkBlocks * (MaxBlockX + 1) - 1)
RowOf(i) == LET n == i \div (ChunkBlocks * (MaxBlockX + 1))
            IN  CASE n = 0 -> 0 [] n = 1 -> 30 [] n = 2 -> 31
BzOf(i) == (i \div (MaxBlockX + 1)) % ChunkBlocks
BxOf(i) == i % (MaxBlockX + 1)

\* what the loops do with block column i: "err" with the failing chunk
\* column when the column around it or its north neighbor fails to decode,
\* "hang" when its scan never ends, "drawn" with its pixel otherwise
Visit(f, r, p, i) ==
    IF BadColumn(f, r, RowOf(i))
    THEN [out |-> "err", at |-> <<0, 0>>, rgba |-> <<0, 0, 0, 0>>, consulted |-> {},
          own |-> "Clear", tint |-> "Normal", key |-> r,
          err |-> <<ColumnAt(r, RowOf(i)).x_pos, ColumnAt(r, RowOf(i)).z_pos>>]
    ELSE DrawColumn(f, r, p, RowOf(i), BxOf(i), BzOf(i))

\* The closure up to the save: the loops stop at the first block column that
\* does not end "drawn"; region_img holds the pixels written before it.
RenderOutcome(visits) ==
    LET stops == {i \in BlockColumns : visits[i].out # "drawn"}
        stop == IF stops = {} THEN 3 * ChunkBlocks * (MaxBlockX + 1)
                ELSE CHOOSE i \in stops : \A j \in stops : i <= j
        before == {i \in BlockColumns : i < stop}
    IN  [out |-> IF stops = {} THEN "drawn" ELSE visits[stop].out,
         img |-> {<<visits[i].at, visits[i].rgba>> : i \in before},
         err |-> IF stops = {} THEN <<0, 0>> ELSE visits[stop].err,
         key |-> IF stops = {} THEN <<0, 0>> ELSE visits[stop].key,
         consulted |-> UNION {visits[i].consulted : i \in before \cup (stops \cap {stop})}]

RenderLoops(f, r, p) ==
    CHOOSE done \in {RenderOutcome(visits) :
                        visits \in {[i \in BlockColumns |-> Visit(f, r, p, i)] @@ << >>}} : TRUE

\* The closure reads of the disk only the region itself and prev, and of
\* their faults only which chunk column fails to decode: RenderTable holds
\* RenderLoops for each such combination, computed once.
ColumnFaults == {"none", "bad_north", "bad_south"}
ColumnFault(k) == IF k \in ColumnFaults THEN k ELSE "none"
RenderKeys == Cells \X ColumnFaults \X ({None} \cup {Some(q) : q \in Cells}) \X ColumnFaults
RenderTable ==
    [k \in RenderKeys |->
        RenderLoops([q \in Cells |-> IF q = k[1] THEN k[2]
                                     ELSE IF k[3] # None /\ q = k[3][1] THEN k[4]
                                     ELSE "none"],
                    k[1], k[3])] @@ << >>

Render(f, r, p) ==
    RenderTable[<<r, ColumnFault(f[r]), p, IF p = None THEN "none" ELSE ColumnFault(f[p[1]])>>]

(***************************************************************************)
(* Spec: main                                                              *)
(***************************************************************************)
RECURSIVE SortedSeq(_)
\* iteration order of a BTreeSet
SortedSeq(S) ==
    IF S = {} THEN << >>
    ELSE LET m == CHOOSE e \in S : \A o \in S : e <= o
         IN  <<m>> \o SortedSeq(S \ {m})

NoTask == [st |-> "none", z |-> 0, prev |-> None, res |-> "none"]

Init ==
    /\ coords \in {c \in SUBSET Cells : Cardinality(c) <= MaxRegions}
    /\ fault \in {f \in [coords -> Faults \cup {"none"}] :
                    Cardinality({r \in coords : f[r] # "none"}) <= MaxFaults}
    /\ gpc = [x \in {r[1] : r \in coords} |-> "find"]
    /\ zs = [x \in {r[1] : r \in coords} |-> SortedSeq({r[2] : r \in {q \in coords : q[1] = x}})]
    /\ prev = [x \in {r[1] : r \in coords} |-> None]
    /\ task = [x \in {r[1] : r \in coords} |-> NoTask]
    /\ started = [x \in {r[1] : r \in coords} |-> << >>]
    /\ finished = [x \in {r[1] : r \in coords} |-> << >>]
    /\ region_errors = << >>
    /\ col_errors = << >>
    /\ pngs = << >>
    /\ consulted = << >>
    /\ result = "running"
    /\ col = [x_pos |-> 0, z_pos |-> 0, y_pos |-> 0, sections |-> {}]
    /\ max_y = 0
    /\ stack = << >>
    /\ north = NoNorth(col)
    /\ has_prev = FALSE
    /\ block_x = 0
    /\ block_z = 0
    /\ y = 0
    /\ col_color = "Clear"
    /\ iters = 0
    /\ water_depth = 0
    /\ tint = "unset"
    /\ pixel = NoPixel
    /\ pc = "idle"

worldVars == <<coords, fault>>

\* main returns an error: the other group futures are dropped with renderers
Dropped(x) ==
    [g \in DOMAIN gpc |-> IF g = x THEN "failed"
                          ELSE IF gpc[g] = "done" THEN "done" ELSE "dropped"]

\* one prev shared by all groups: the closure gets the prev of any of them
FindOkSharedPrev(x) ==
    /\ result = "running" /\ gpc[x] = "find"
    /\ fault[<<x, Head(zs[x])>>] \notin {"corrupt", "gone"}
    /\ \E g \in DOMAIN gpc :
          task' = [task EXCEPT ![x] = [st |-> "queued", z |-> Head(zs[x]), prev |-> prev[g],
                                       res |-> "none"]]
    /\ prev' = [prev EXCEPT ![x] = None]
    /\ gpc' = [gpc EXCEPT ![x] = "await"]
    /\ UNCHANGED <<worldVars, zs, region_errors, col_errors, pngs, consulted, started,
                   finished, result, scanVars>>

\* Region::find(..) gives Ok(Some(region)): the render is handed to spawn_blocking,
\* prev moves into the closure
FindOk(x) ==
    /\ result = "running" /\ gpc[x] = "find"
    /\ fault[<<x, Head(zs[x])>>] \notin {"corrupt", "gone"}
    /\ task' = [task EXCEPT ![x] = [st |-> "queued", z |-> Head(zs[x]), prev |-> prev[x],
                                    res |-> "none"]]
    /\ prev' = [prev EXCEPT ![x] = None]
    /\ gpc' = [gpc EXCEPT ![x] = "await"]
    /\ UNCHANGED <<worldVars, zs, region_errors, col_errors, pngs, consulted, started,
                   finished, result, scanVars>>

\* Ok(None) => return Err(Error::RegionNotFound), which try_next()? hands to main
FindGone(x) ==
    /\ result = "running" /\ gpc[x] = "find"
    /\ fault[<<x, Head(zs[x])>>] = "gone"
    /\ result' = "RegionNotFound"
    /\ gpc' = Dropped(x)
    /\ UNCHANGED <<worldVars, zs, prev, task, region_errors, col_errors, pngs, consulted,
                   started, finished, scanVars>>

\* Err(e) => { region_errors.lock().insert([x, z], e); return Ok(()) }
FindCorrupt(x) ==
    /\ result = "running" /\ gpc[x] = "find"
    /\ fault[<<x, Head(zs[x])>>] = "corrupt"
    /\ region_errors' = Insert(region_errors, <<x, Head(zs[x])>>, "RegionDecodeError")
    /\ gpc' = [gpc EXCEPT ![x] = "done"]
    /\ UNCHANGED <<worldVars, zs, prev, task, col_errors, pngs, consulted, started,
                   finished, result, scanVars>>

\* a blocking thread picks the closure up: println!("processing region ..")
TaskStart(x) ==
    /\ result = "running" /\ task[x].st = "queued"
    /\ task' = [task EXCEPT ![x].st = "running"]
    /\ started' = [started EXCEPT ![x] = Append(@, task[x].z)]
    /\ UNCHANGED <<worldVars, gpc, zs, prev, region_errors, col_errors, pngs, consulted,
                   finished, result, scanVars>>

Rendered(x) == Render(fault, <<x, task[x].z>>, task[x].prev)

\* every column is drawn and region_img.save_with_format(..) succeeds: Ok(region)
TaskFinishSaved(x) ==
    /\ task[x].st = "running"
    /\ fault[<<x, task[x].z>>] # "png_fails"
    /\ LET done == Rendered(x)
       IN  /\ done.out = "drawn"
           /\ pngs' = Insert(pngs, <<x, task[x].z>>, done.img)
           /\ consulted' = Insert(consulted, <<x, task[x].z>>, done.consulted)
    /\ task' = [task EXCEPT ![x].st = "finished", ![x].res = "region"]
    /\ finished' = [finished EXCEPT ![x] = Append(@, task[x].z)]
    /\ UNCHANGED <<worldVars, gpc, zs, prev, region_errors, col_errors, started, result,
                   scanVars>>

\* Err(e) => { col_errors.lock().insert([x, z], e); return Ok(region) }, under
\* the region's [x, z] for a column of the region itself and under the block
\* coordinates for a column of the north-neighbor lookup
TaskFinishColError(x) ==
    /\ task[x].st = "running"
    /\ LET done == Rendered(x)
       IN  /\ done.out = "err"
           /\ col_errors' = Insert(col_errors, done.key, done.err)
           /\ consulted' = Insert(consulted, <<x, task[x].z>>, done.consulted)
    /\ task' = [task EXCEPT ![x].st = "finished", ![x].res = "region"]
    /\ finished' = [finished EXCEPT ![x] = Append(@, task[x].z)]
    /\ UNCHANGED <<worldVars, gpc, zs, prev, region_errors, pngs, started, result, scanVars>>

\* region_img.save_with_format(..)? fails: Err(Error::Image)
TaskFinishSaveError(x) ==
    /\ task[x].st = "running"
    /\ fault[<<x, task[x].z>>] = "png_fails"
    /\ LET done == Rendered(x)
       IN  /\ done.out = "drawn"
           /\ consulted' = Insert(consulted, <<x, task[x].z>>, done.consulted)
    /\ task' = [task EXCEPT ![x].st = "finished", ![x].res = "Image"]
    /\ finished' = [finished EXCEPT ![x] = Append(@, task[x].z)]
    /\ UNCHANGED <<worldVars, gpc, zs, prev, region_errors, col_errors, pngs, started,
                   result, scanVars>>

\* the returned region is dropped instead of being kept as prev
HarvestRegionDropsPrev(x) ==
    /\ result = "running" /\ gpc[x] = "await"
    /\ task[x].st = "finished" /\ task[x].res = "region"
    /\ zs' = [zs EXCEPT ![x] = Tail(@)]
    /\ gpc' = [gpc EXCEPT ![x] = IF Tail(zs[x]) = << >> THEN "done" ELSE "find"]
    /\ task' = [task EXCEPT ![x] = NoTask]
    /\ UNCHANGED <<worldVars, prev, region_errors, col_errors, pngs, consulted, started,
                   finished, result, scanVars>>

\* prev = Some(.. .await??) with Ok(region), then the next z of the for loop,
\* or Ok(()) after the last
HarvestRegion(x) ==
    /\ result = "running" /\ gpc[x] = "await"
    /\ task[x].st = "finished" /\ task[x].res = "region"
    /\ prev' = [prev EXCEPT ![x] = Some(<<x, task[x].z>>)]
    /\ zs' = [zs EXCEPT ![x] = Tail(@)]
    /\ gpc' = [gpc EXCEPT ![x] = IF Tail(zs[x]) = << >> THEN "done" ELSE "find"]
    /\ task' = [task EXCEPT ![x] = NoTask]
    /\ UNCHANGED <<worldVars, region_errors, col_errors, pngs, consulted, started, finished,
                   result, scanVars>>

\* the failed render taken like a returned region
HarvestErrorGoesOn(x) ==
    /\ result = "running" /\ gpc[x] = "await"
    /\ task[x].st = "finished" /\ task[x].res # "region"
    /\ prev' = [prev EXCEPT ![x] = Some(<<x, task[x].z>>)]
    /\ zs' = [zs EXCEPT ![x] = Tail(@)]
    /\ gpc' = [gpc EXCEPT ![x] = IF Tail(zs[x]) = << >> THEN "done" ELSE "find"]
    /\ task' = [task EXCEPT ![x] = NoTask]
    /\ UNCHANGED <<worldVars, region_errors, col_errors, pngs, consulted, started, finished,
                   result, scanVars>>

\* .await?? with Err(e): the group returns it and try_next()? hands it to main
HarvestError(x) ==
    /\ result = "running" /\ gpc[x] = "await"
    /\ task[x].st = "finished" /\ task[x].res # "region"
    /\ result' = task[x].res
    /\ gpc' = Dropped(x)
    /\ task' = [task EXCEPT ![x] = NoTask]
    /\ UNCHANGED <<worldVars, zs, prev, region_errors, col_errors, pngs, consulted, started,
                   finished, scanVars>>

\* the loop left as soon as one group has returned
OneGroupDone == \E x \in DOMAIN gpc : gpc[x] = "done"

\* renderers.try_next() yields None
AllGroupsDone == \A x \in DOMAIN gpc : gpc[x] = "done"

\* Arc::strong_count of the two collections: main's own Arc, the clone moved
\* into each group future that is still alive, and for col_errors the clone
\* moved into each blocking closure that has not returned
LiveGroups == {x \in DOMAIN gpc : gpc[x] \in {"find", "await"}}
LiveClosures == {x \in DOMAIN gpc : task[x].st \in {"queued", "running"}}
RegionErrorsStrong == Cardinality(LiveGroups) + 1
ColErrorsStrong == Cardinality(LiveGroups) + Cardinality(LiveClosures) + 1

\* the two collections tested in the other order
AggregateResultColsFirst(re, ce) ==
    IF DOMAIN ce # {} THEN "Cols"
    ELSE IF DOMAIN re # {} THEN "Regions"
    ELSE "Ok"

\* if !region_errors.is_empty() { Regions } else if !col_errors.is_empty() { Cols } else { Ok }
AggregateResult(re, ce) ==
    IF DOMAIN re # {} THEN "Regions"
    ELSE IF DOMAIN ce # {} THEN "Cols"
    ELSE "Ok"

Aggregate ==
    /\ result = "running"
    /\ AllGroupsDone
    /\ result' = IF RegionErrorsStrong = 1 /\ ColErrorsStrong = 1
                 THEN AggregateResult(region_errors, col_errors)
                 ELSE "Panic"        \* Arc::into_inner(..) is None: unwrap() panics
    /\ UNCHANGED <<worldVars, gpc, zs, prev, task, region_errors, col_errors, pngs,
                   consulted, started, finished, scanVars>>

Next ==
    \/ \E x \in DOMAIN gpc : FindOk(x)
    \/ \E x \in DOMAIN gpc : FindGone(x)
    \/ \E x \in DOMAIN gpc : FindCorrupt(x)
    \/ \E x \in DOMAIN gpc : TaskStart(x)
    \/ \E x \in DOMAIN gpc : TaskFinishSaved(x)
    \/ \E x \in DOMAIN gpc : TaskFinishColError(x)
    \/ \E x \in DOMAIN gpc : TaskFinishSaveError(x)
    \/ \E x \in DOMAIN gpc : HarvestRegion(x)
    \/ \E x \in DOMAIN gpc : HarvestError(x)
    \/ Aggregate

Spec == Init /\ [][Next]_vars

(***************************************************************************)
(* Properties of one block column                                          *)
(***************************************************************************)
MaxOf(S) == CHOOSE m \in S : \A e \in S : e <= m

\* the levels of a block column whose block reduces to a non-Clear color
NonClearYs(c, st, top) ==
    {yy \in c.y_pos..top : Lookup(c, st, yy) \notin {"unloaded", "absent", "Clear"}}

OwnNonClearYs == NonClearYs(col, stack, max_y)
OwnTopColor ==
    IF OwnNonClearYs = {} THEN "Clear" ELSE Lookup(col, stack, MaxOf(OwnNonClearYs))

\* C1 (as claimed): the pixel written is the tint applied to the color of
\* the column's own topmost non-Clear block (Clear if it has none); the
\* water-depth count and the north-neighbor lookup do not change that color.
C1_PixelShowsOwnColor ==
    pc = "done" => pixel[2] = MapColorTint(OwnTopColor, tint)

\* C2 (as claimed): when the scan examines a block whose identifier is not
\* in the Color Table above the column floor, its next step examines y - 1:
\* it neither leaves the loop nor looks at the same y again.
C2_AbsentBlockScanGoesDown ==
    [][(pc = "scan" /\ y > col.y_pos /\ Lookup(col, stack, y) = "absent")
         => (pc' = "scan" /\ y' = y - 1)]_vars

\* C3 (as claimed): the scan terminates for every column content: it looks
\* at each level from max_y down to col.y_pos at most once, so it never
\* starts more iterations than the column has levels.
C3_ScanTerminates ==
    iters <= Max(0, max_y - col.y_pos + 1)

\* the column the north neighbor is read from, as the claim describes it
NorthMeta == IF NorthSource(col, has_prev, block_z) = "same_chunk" THEN col ELSE north.col
NorthNonClearYs == NonClearYs(NorthMeta, north.stack, north.max_y)
NorthResolvable ==
    /\ NorthSource(col, has_prev, block_z) # "not_on_map"
    /\ NorthSource(col, has_prev, block_z) = "same_chunk" \/ north.res = "some"
    /\ NorthNonClearYs # {}

\* Relative to the column the lookup reads: for a column whose own color is
\* neither Clear nor WaterBlue, the tint is Dark / Normal / Light as the
\* column's top non-Clear level is below / level with / above that of the
\* column read, and Normal when there is no previous region, no chunk column
\* or no non-Clear block in it.
ReliefTintOfColumnRead ==
    (pc = "done" /\ OwnTopColor \notin {"Clear", "WaterBlue"}) =>
        /\ y = MaxOf(OwnNonClearYs)
        /\ tint = IF ~NorthResolvable THEN "Normal"
                  ELSE IF y < MaxOf(NorthNonClearYs) THEN "Dark"
                  ELSE IF y = MaxOf(NorthNonClearYs) THEN "Normal"
                  ELSE "Light"

\* a stone column drawn Dark against the column in the previous region
ReliefDarkAcrossRegions ==
    /\ pc = "done" /\ OwnTopColor = "StoneGray"
    /\ NorthSource(col, has_prev, block_z) = "prev_region"
    /\ NorthResolvable /\ tint = "Dark"

Brightness(t) == CASE t = "Dark" -> 0 [] t = "Normal" -> 1 [] t = "Light" -> 2

\* C5: the water tint follows the threshold table, depends on the position
\* only through the parity of block_x + block_z, alternates inside the two
\* dithered bands, and never gets brighter as the depth grows.
C5_WaterTintTable ==
    pc = "tinted" =>
        LET d == water_depth
            other == WaterTint(d, block_x + 1, block_z)
        IN  /\ d <= 2 => tint = "Light"
            /\ d \in 3..4 => tint \in {"Light", "Normal"} /\ other \in {"Light", "Normal"}
                             /\ other # tint
            /\ d \in 5..6 => tint = "Normal"
            /\ d \in 7..9 => tint \in {"Normal", "Dark"} /\ other \in {"Normal", "Dark"}
                             /\ other # tint
            /\ d >= 10 => tint = "Dark"
            /\ tint = WaterTint(d, (block_x + block_z) % 2, 0)
            /\ \A shallower \in 0..d :
                  Brightness(WaterTint(shallower, block_x, block_z)) >= Brightness(tint)

\* a column in the deep dithered band, drawn Dark on odd parity
C5_Witness ==
    /\ pc = "tinted" /\ water_depth = 8 /\ (block_x + block_z) % 2 = 1 /\ tint = "Dark"

(***************************************************************************)
(* Properties of the run                                                   *)
(***************************************************************************)
\* C6 (as claimed): a cross-region north-neighbor lookup of region [rx, rz]
\* only ever goes to region [rx, rz - 1]; a region of the group that is
\* not adjacent is never used.
C6_NorthIsAdjacentRegion ==
    \A r \in DOMAIN consulted : \A q \in consulted[r] : q = <<r[1], r[2] - 1>>

\* C4 (as claimed): a column of neither Clear nor WaterBlue color on the
\* north border of a region is tinted against its north neighbor column
\* (same x, z - 1), which lies in region [rx, rz - 1]; when that region is
\* not part of the world there is no such column and the tint is Normal.
C4_ReliefAgainstNorthColumn ==
    \A x \in DOMAIN gpc :
        (/\ task[x].st = "running"
         /\ <<x, task[x].z - 1>> \notin coords
         /\ ~BadColumn(fault, <<x, task[x].z>>, 0))
        => \A bx \in 0..MaxBlockX :
               LET d == DrawColumn(fault, <<x, task[x].z>>, task[x].prev, 0, bx, 0)
               IN  (d.out = "drawn" /\ d.own \notin {"Clear", "WaterBlue"})
                       => d.tint = "Normal"

GroupZs(x) == {r[2] : r \in {q \in coords : q[1] = x}}

\* C7: within a group the renders start in strictly ascending z order without
\* skipping a region, one at a time (a render starts only after every
\* earlier one has returned), and the render of a region holds as prev the
\* region returned by the render before it (None for the first).
C7_GroupRendersInOrder ==
    \A x \in DOMAIN gpc :
        LET s == started[x]
            d == finished[x]
            before == IF task[x].st = "finished" THEN Len(d) - 1 ELSE Len(d)
        IN  /\ \A i \in 1..Len(s) : \A j \in 1..Len(s) : i < j => s[i] < s[j]
            /\ \A i \in 1..Len(s) : \A z \in GroupZs(x) : z < s[i] => \E j \in 1..i : s[j] = z
            /\ Len(d) <= Len(s) /\ Len(s) <= Len(d) + 1
            /\ \A i \in 1..Len(d) : d[i] = s[i]
            /\ task[x].st = "queued" => Len(s) = Len(d)
            /\ task[x].st \in {"queued", "running", "finished"} =>
                  task[x].prev = IF before = 0 THEN None ELSE Some(<<x, d[before]>>)

\* the second render of a group runs, holding the first region, while
\* another group renders too
C7_Witness ==
    \E x \in DOMAIN gpc : \E o \in DOMAIN gpc :
        /\ o # x
        /\ task[x].st = "running" /\ Len(finished[x]) = 1
        /\ task[x].prev = Some(<<x, finished[x][1]>>)
        /\ task[o].st = "running"

Faulty == {r \in coords : fault[r] # "none"}
Quiet == \A x \in DOMAIN gpc : task[x].st \notin {"queued", "running"}

\* C8 (as claimed): when exactly one chunk column fails to decode and nothing
\* else is wrong, the run ends with a PNG for every region but the one
\* holding that column, exactly one column error, and the result Cols.
C8_OneBadColumn ==
    (/\ result # "running" /\ Quiet
     /\ Cardinality(Faulty) = 1
     /\ \A r \in Faulty : fault[r] \in {"bad_north", "bad_south"})
    => /\ DOMAIN pngs = coords \ Faulty
       /\ Cardinality(DOMAIN col_errors) = 1
       /\ result = "Cols"

\* C9 (as claimed): when the only faults are regions that fail to decode, every
\* listed region has been processed by the time the run ends: it has its
\* PNG or its own recorded error.
C9_CorruptRegionStopsOnlyItself ==
    (/\ result # "running" /\ Quiet
     /\ Faulty # {}
     /\ \A r \in Faulty : fault[r] = "corrupt")
    => \A r \in coords :
           r \in DOMAIN pngs \cup DOMAIN region_errors \cup DOMAIN col_errors

\* C10: a result other than a fatal or output error is only ever returned when
\* every group has completed and no render is outstanding; it is Regions iff
\* a region error is recorded, Cols iff only column errors are, and Ok iff
\* both collections are empty.
C10_ResultAfterAllGroups ==
    result \in {"Ok", "Regions", "Cols"} =>
        /\ \A x \in DOMAIN gpc : gpc[x] = "done" /\ task[x].st = "none"
        /\ result = "Regions" <=> DOMAIN region_errors # {}
        /\ result = "Cols" <=> (DOMAIN region_errors = {} /\ DOMAIN col_errors # {})
        /\ result = "Ok" <=> (DOMAIN region_errors = {} /\ DOMAIN col_errors = {})

\* a run with errors of both kinds ends with the region errors
C10_Witness ==
    /\ result = "Regions" /\ DOMAIN col_errors # {} /\ DOMAIN pngs # {}

\* C11 (as claimed): once the run has failed because a listed region can no
\* longer be located, the other groups are cancelled: no further render
\* starts and no further PNG is written.
C11_FatalErrorCancelsOthers ==
    [][result = "RegionNotFound" => (pngs' = pngs /\ started' = started)]_vars

\* the i-th render group x has finished, with the prev it held
RenderOf(x, i) ==
    Render(fault, <<x, finished[x][i]>>,
           IF i = 1 THEN None ELSE Some(<<x, finished[x][i - 1]>>))

\* the chunk columns that fail to decode, by their chunk coordinates
BadChunkColumns ==
    UNION { {<<ColumnAt(r, cz).x_pos, ColumnAt(r, cz).z_pos>> :
                cz \in {q \in ChunkRows : BadColumn(fault, r, q)}} : r \in coords }

\* C12: a render whose PNG cannot be saved fails the whole run. While the
\* failure waits to be taken up the group can do nothing else; the run then
\* ends with the Image error and never with Ok, Regions or Cols; the region
\* has no PNG and no entry in region_errors, the two collections only hold
\* something when a region or a chunk column fails to decode; the group has
\* started no later region.
C12_SaveErrorFailsRun ==
    /\ \A x \in DOMAIN gpc :
          (task[x].st = "finished" /\ task[x].res = "Image") =>
              /\ result \notin {"Ok", "Regions", "Cols"}
              /\ result = "running" => gpc[x] = "await"
              /\ <<x, task[x].z>> \notin DOMAIN pngs \cup DOMAIN region_errors
              /\ started[x] = finished[x]
              /\ finished[x][Len(finished[x])] = task[x].z
    /\ result = "Image" =>
          \E x \in DOMAIN gpc :
              /\ gpc[x] = "failed"
              /\ started[x] = finished[x]
              /\ zs[x] # << >> /\ Head(zs[x]) = finished[x][Len(finished[x])]
              /\ fault[<<x, Head(zs[x])>>] = "png_fails"
    /\ result \in {"Ok", "Regions", "Cols"} =>
          \A x \in DOMAIN gpc : \A i \in 1..Len(finished[x]) :
              ~(fault[<<x, finished[x][i]>>] = "png_fails" /\ RenderOf(x, i).out = "drawn")
    /\ \A r \in DOMAIN region_errors : fault[r] = "corrupt"
    /\ DOMAIN col_errors # {} => BadChunkColumns # {}

\* the run has failed on a save while the group had a later region to render
\* and another group has written a tile
C12_Witness ==
    /\ result = "Image"
    /\ \E x \in DOMAIN gpc : gpc[x] = "failed" /\ Len(zs[x]) >= 2
    /\ DOMAIN pngs # {}

\* the levels of the block column (bx, bz) of chunk row cz of region r whose
\* block reduces to a non-Clear color
WorldNonClearYs(r, cz, bx, bz) ==
    NonClearYs(ColumnAt(r, cz), StackAt(r, cz, bx, bz), HeightAt(r, cz, bx, bz))

\* C13: while region B = [x, z] is rendered after its north neighbor
\* A = [x, z - 1] and both decode without error, every column of B's
\* northmost block row whose color is neither Clear nor WaterBlue and whose
\* top non-Clear level lies below that of the column directly north of it,
\* in A's southmost block row, is tinted Dark, whatever the other groups do.
C13_BorderRowDarkBelowNorthRegion ==
    \A x \in DOMAIN gpc :
        (/\ task[x].st \in {"running", "finished"}
         /\ <<x, task[x].z - 1>> \in coords
         /\ fault[<<x, task[x].z - 1>>] = "none"
         /\ fault[<<x, task[x].z>>] \in {"none", "png_fails"})
        => \A bx \in 0..MaxBlockX :
               LET B == <<x, task[x].z>>
                   A == <<x, task[x].z - 1>>
                   d == DrawColumn(fault, B, task[x].prev, 0, bx, 0)
                   own == WorldNonClearYs(B, 0, bx, 0)
                   nor == WorldNonClearYs(A, 31, bx, ChunkBlocks - 1)
               IN  (/\ d.own \notin {"Clear", "WaterBlue"}
                    /\ own # {} /\ nor # {} /\ MaxOf(own) < MaxOf(nor))
                       => d.out = "drawn" /\ d.tint = "Dark"

\* such a border column is being drawn Dark while another group renders too
C13_Witness ==
    \E x \in DOMAIN gpc : \E o \in DOMAIN gpc :
        /\ o # x /\ task[o].st = "running"
        /\ task[x].st = "running"
        /\ <<x, task[x].z - 1>> \in coords
        /\ fault[<<x, task[x].z - 1>>] = "none" /\ fault[<<x, task[x].z>>] = "none"
        /\ \E bx \in 0..MaxBlockX :
               LET d == DrawColumn(fault, <<x, task[x].z>>, task[x].prev, 0, bx, 0)
               IN  /\ d.own \notin {"Clear", "WaterBlue"} /\ d.tint = "Dark"
                   /\ MaxOf(WorldNonClearYs(<<x, task[x].z>>, 0, bx, 0))
                        < MaxOf(WorldNonClearYs(<<x, task[x].z - 1>>, 31, bx, ChunkBlocks - 1))

(***************************************************************************)
(* Properties of the water depth                                           *)
(***************************************************************************)
\* a level that counts toward the depth as the claim has it: its section is
\* loaded and its block reduces to WaterBlue or is waterlogged, listed in
\* the Color Table or not
CountsAsWater(c, st, yy) ==
    /\ section_at(c, yy \div SectionHeight)
    /\ \/ Lookup(c, st, yy) = "WaterBlue"
       \/ IsWaterlogged(st, yy)

\* C14 (as claimed): the depth of a water column is the number of
\* consecutive levels from the stop Y down that count as water.
C14_WaterDepthCountsWaterlogged ==
    (pc = "done" /\ OwnTopColor = "WaterBlue") =>
        water_depth = Cardinality({yy \in col.y_pos..y :
                                      \A v \in yy..y : CountsAsWater(col, stack, v)})

(***************************************************************************)
(* Properties of the reduction                                             *)
(***************************************************************************)
\* C15: the color a matched rule reduces to. Single: its color. Bed: head iff
\* part is "head", else foot. Crops: grown iff age is "7", else growing.
\* Pillar: side iff axis is present and not "y", else top. Waterloggable:
\* wet iff waterlogged is "true", else dry. A property the block does not
\* have selects the else branch; nothing but the block's own rule and
\* properties enters (the color held before does not).
C15_RuleReduction ==
    pc = "reduced" =>
        LET rule == block_colors[stack[y].name]
            p == stack[y].props
        IN  \A a \in MapColors : \A b \in MapColors :
                /\ rule = Single(a) => col_color = a
                /\ rule = Bed(a, b) =>
                      /\ p.part = "head" => col_color = a
                      /\ p.part # "head" => col_color = b
                /\ rule = Crops(a, b) =>
                      /\ p.age = "7" => col_color = b
                      /\ p.age # "7" => col_color = a
                /\ rule = Pillar(a, b) =>
                      /\ (p.axis # NoValue /\ p.axis # "y") => col_color = b
                      /\ (p.axis = NoValue \/ p.axis = "y") => col_color = a
                /\ rule = Waterloggable(a, b) =>
                      /\ p.waterlogged = "true" => col_color = b
                      /\ p.waterlogged # "true" => col_color = a

\* a log without an axis property shows its top color
C15_Witness ==
    /\ pc = "reduced" /\ stack[y].name = "oak_log" /\ stack[y].props.axis = NoValue
    /\ col_color = "OakTan"

(***************************************************************************)
(* Properties of the error collections                                     *)
(***************************************************************************)
OnlyBadColumns == \A r \in coords : fault[r] \in {"none", "bad_north", "bad_south"}

\* a render that ended with a column error does not stop its group: no PNG
\* for the region, the region is the prev of the next render, and a run in
\* which nothing but chunk columns fails renders every listed region
ColumnErrorDoesNotStopGroup ==
    /\ \A x \in DOMAIN gpc : \A i \in 1..Len(finished[x]) :
          RenderOf(x, i).out = "err" =>
              /\ <<x, finished[x][i]>> \notin DOMAIN pngs
              /\ col_errors # << >>
              /\ (i = Len(finished[x]) /\ task[x].st \in {"queued", "running"})
                    => task[x].prev = Some(<<x, finished[x][i]>>)
    /\ (OnlyBadColumns /\ result \in {"Ok", "Regions", "Cols"}) =>
          \A r \in coords : \E i \in 1..Len(finished[r[1]]) : finished[r[1]][i] = r[2]

\* C16 (as claimed): a chunk column that fails to decode while a region is
\* rendered is recorded under that region's coordinates; the region gets no
\* PNG, is handed on as prev, and the later regions of the group are
\* processed.
C16_ColumnErrorUnderRegionKey ==
    /\ \A x \in DOMAIN gpc : \A i \in 1..Len(finished[x]) :
          RenderOf(x, i).out = "err" => <<x, finished[x][i]>> \in DOMAIN col_errors
    /\ DOMAIN col_errors \subseteq coords
    /\ ColumnErrorDoesNotStopGroup

(***************************************************************************)
(* Properties of the tiles                                                 *)
(***************************************************************************)
\* the listed region next to the north of r in r's group, if any
GroupPred(r) ==
    LET above == {q \in coords : q[1] = r[1] /\ q[2] < r[2]}
    IN  IF above = {} THEN None
        ELSE Some(CHOOSE q \in above : \A o \in above : o[2] <= q[2])

\* the world with everything but region r and its GroupPred taken as sound
OnlyGroupNeighbors(r) ==
    [q \in coords |-> IF q = r \/ Some(q) = GroupPred(r) THEN fault[q] ELSE "none"]

\* C17: the tile saved for a region is a function of that region and of the
\* region before it in its own group, so it is the same in every
\* interleaving of the groups.
C17_TileIndependentOfInterleaving ==
    \A r \in DOMAIN pngs : pngs[r] = Render(OnlyGroupNeighbors(r), r, GroupPred(r)).img

\* tiles of two groups have been saved, one of them drawn against a prev
C17_Witness ==
    \E r \in DOMAIN pngs : \E q \in DOMAIN pngs :
        /\ q[1] # r[1]
        /\ GroupPred(r) # None
        /\ consulted[r] # {}

(***************************************************************************)
(* Properties of MapColor::tint                                            *)
(***************************************************************************)
\* the three color channels of a base RGB value, computed apart from
\* to_be_bytes
Channels(n) == <<(n \div (256 * 256)) % 256, (n \div 256) % 256, n % 256>>

\* the multiplier the claim gives for each tint
ClaimedMultiplier(t) == IF t = "Dark" THEN 180 ELSE IF t = "Normal" THEN 220 ELSE 255

\* C18: tinting Clear gives the transparent pixel (0, 0, 0, 0) for every
\* tint; tinting another color gives alpha 255 and, for each channel,
\* floor(channel * m / 255) with m = 180, 220, 255 for Dark, Normal, Light.
\* The product fits 16 bits, Light leaves the base color as it is and no
\* channel exceeds its base value.
C18_TintArithmetic ==
    pc = "drawn" =>
        IF col_color = "Clear" THEN pixel[2] = <<0, 0, 0, 0>>
        ELSE LET base == Channels(base_rgb(col_color))
                 m == ClaimedMultiplier(tint)
             IN  /\ pixel[2][4] = 255
                 /\ \A i \in 1..3 :
                       /\ base[i] * m < U16
                       /\ pixel[2][i] = (base[i] * m) \div 255
                       /\ pixel[2][i] <= base[i]
                       /\ tint = "Light" => pixel[2][i] = base[i]

\* water drawn Dark: 64, 64, 255 becomes 45, 45, 180
C18_Witness ==
    /\ pc = "drawn" /\ col_color = "WaterBlue" /\ tint = "Dark"
    /\ pixel[2] = <<45, 45, 180, 255>>

\* every entry of map m is still in map n, with the error it held
Keeps(m, n) == \A k \in DOMAIN m : k \in DOMAIN n /\ n[k] = m[k]

\* C19 (as claimed): each key is inserted into region_errors at most once
\* and into col_errors at most once, so no step replaces an error already
\* recorded, in any interleaving of the groups.
C19_NoErrorOverwritten ==
    [][Keeps(region_errors, region_errors') /\ Keeps(col_errors, col_errors')]_vars

\* main's Arcs are the only ones left once it has aggregated, and it never
\* finds another one when it gets there
SoleOwner ==
    /\ result # "Panic"
    /\ result \in {"Ok", "Regions", "Cols"} => RegionErrorsStrong = 1 /\ ColErrorsStrong = 1

\* a step that leaves both collections as they are once they have been read
ReadErrorsStay ==
    result \in {"Ok", "Regions", "Cols"} =>
        (region_errors' = region_errors /\ col_errors' = col_errors)

\* C20: when main gets to the aggregation, its Arcs are the only ones left:
\* Arc::into_inner(..).unwrap() never panics, and once the result is Ok,
\* Regions or Cols no step changes either collection.
C20_SoleOwnerAtAggregation == []SoleOwner /\ [][ReadErrorsStay]_vars

\* two groups have run, errors are recorded and the aggregation has been done
C20_Witness ==
    /\ result \in {"Regions", "Cols"}
    /\ Cardinality(DOMAIN gpc) = 2
    /\ DOMAIN pngs # {}

====
